---- MODULE Spec2Model ----
(***************************************************************************)
(* Model of src/main.py: a PySide6 timetable over a local SQLite store     *)
(* (tables classes, class_history, lesson_plans) and a sentinel file       *)
(* previous_monday.json.  The state is the store, the sentinel file, the   *)
(* five per-day table widgets and the position of the launch inside        *)
(* TimetableApp.__init__ / backup_if_monday.                                *)
(*                                                                         *)
(* Text values are sequences of one-character strings so that str.strip()  *)
(* can be computed; a date string 'YYYY-MM-DD' of day number d is <<d>>,    *)
(* the empty string is <<>>.  SQLite BOOLEAN columns hold 0 or 1.          *)
(***************************************************************************)
EXTENDS Integers, Sequences, FiniteSets, TLC

VARIABLES
    pc,            \* where the process is: "off", inside backup_if_monday, or "running"
    today,         \* local date read by the most recent launch (the clock never goes back)
    prev_file,     \* previous_monday.json
    classes,       \* table classes: id -> row
    seq_classes,   \* sqlite_sequence entry of classes (AUTOINCREMENT high-water mark)
    class_history, \* table class_history, in rowid order
    lesson_plans,  \* table lesson_plans, in rowid order
    tables,        \* self.tables: day -> rows shown by the QTableWidget
    conn,          \* the connection of backup_if_monday: its fetched rows and open transaction
    history_run,   \* history: for each class_history row, the local date of the launch that wrote it
    last_return,   \* history: date string of the last launch that got past backup_if_monday
    committed_on,  \* history: the local dates on which an archive transaction committed
    deleted,       \* history: ids whose deletion was confirmed
    last_save,     \* history: <<class_id, day>> -> text of the most recent save_plan
    events         \* number of writes through the window and of launches that died

vars == <<pc, today, prev_file, classes, seq_classes, class_history, lesson_plans,
          tables, conn, history_run, last_return, committed_on, deleted, last_save,
          events>>

store == <<classes, seq_classes, class_history, lesson_plans>>

\* the history variables no step of a launch changes but the ones named
user_log == <<deleted, last_save, events>>

(***************************************************************************)
(* Bounds of the model.                                                    *)
(***************************************************************************)
MaxIds == 2
MaxDay == 8
MaxEvents == 3

(***************************************************************************)
(* Program constants.                                                      *)
(***************************************************************************)
WEEKDAYS == <<"Monday", "Tuesday", "Wednesday", "Thursday", "Friday">>

WeekdaySet == {WEEKDAYS[i] : i \in 1..Len(WEEKDAYS)}

DayNames == <<"Monday", "Tuesday", "Wednesday", "Thursday", "Friday", "Saturday", "Sunday">>

CHECK_MARK == "check"
CROSS_MARK == "cross"

NULL == "NULL"

Whitespace == {" ", "\t"}

(***************************************************************************)
(* Pure helpers.                                                           *)
(***************************************************************************)
\* today.strftime('%A'); day number 1 is a Monday
Weekday(d) == DayNames[((d - 1) % 7) + 1]

\* today.strftime('%Y-%m-%d'), and SQLite's date('now')
DateStr(d) == <<d>>

\* today.strftime('%A') == "Monday"
IsMonday(d) == Weekday(d) = "Monday"

RECURSIVE lstrip(_)
lstrip(s) == IF s = <<>> THEN s
             ELSE IF Head(s) \in Whitespace THEN lstrip(Tail(s)) ELSE s

RECURSIVE rstrip(_)
rstrip(s) == IF s = <<>> THEN s
             ELSE IF s[Len(s)] \in Whitespace THEN rstrip(SubSeq(s, 1, Len(s) - 1)) ELSE s

\* mutant of strip: only the leading whitespace goes
StripLeadingOnly(s) == lstrip(s)

\* str.strip()
strip(s) == rstrip(lstrip(s))

\* truth value of a Python str
Truthy(s) == s # <<>>

\* the cell text load_data shows for a stored flag
CellText(v) == IF v # 0 THEN CHECK_MARK ELSE CROSS_MARK

\* the column of each toggleable field (load_data, columns 4, 5, 6)
FieldOfColumn(c) ==
    CASE c = 4 -> "lesson_prepared"
      [] c = 5 -> "done"
      [] c = 6 -> "classroom_created"

Min(S) == CHOOSE x \in S : \A y \in S : x <= y

Max(S) == CHOOSE x \in S : \A y \in S : x >= y

(***************************************************************************)
(* The store.                                                              *)
(***************************************************************************)
\* INSERT INTO classes (...) VALUES (?, ?, 0, 0, 0, ?, ?, ?)
NewClass(name, duration, day, grade, time_str) ==
    [name |-> name, duration |-> duration, lesson_prepared |-> 0, done |-> 0,
     classroom_created |-> 0, day |-> day, grade |-> grade, time |-> time_str]

\* mutant of NextId: the rowid of a key without AUTOINCREMENT, one above the largest
\* id present
NextIdReused(cls, sq) == IF DOMAIN cls = {} THEN 1 ELSE Max(DOMAIN cls) + 1

\* the id an AUTOINCREMENT primary key gives the next row: above every id ever used
NextId(cls, sq) == sq + 1

\* SELECT id, name, duration, grade, time, lesson_prepared, done, classroom_created, day
\* FROM classes: one tuple per row, in rowid order
RECURSIVE SelectClasses(_, _)
SelectClasses(cls, S) ==
    IF S = {} THEN <<>>
    ELSE LET id == Min(S)
             c == cls[id]
         IN  <<  <<id, c.name, c.duration, c.grade, c.time, c.lesson_prepared, c.done,
                   c.classroom_created, c.day>>  >> \o SelectClasses(cls, S \ {id})

\* mutant of HistoryRow: lesson_prepared and done bound in the wrong order
HistoryRowSwapped(row, now) ==
    [original_class_id |-> row[1], name |-> row[2], duration |-> row[3], grade |-> row[4],
     time |-> row[5], lesson_prepared |-> row[7], done |-> row[6],
     classroom_created |-> row[8], day |-> row[9], backup_date |-> DateStr(now)]

\* INSERT INTO class_history (original_class_id, name, duration, grade, time,
\* lesson_prepared, done, classroom_created, day) VALUES (?, ..., ?) with the tuple `row`;
\* backup_date takes its default date('now'), the store's own (UTC) date
HistoryRow(row, now) ==
    [original_class_id |-> row[1], name |-> row[2], duration |-> row[3], grade |-> row[4],
     time |-> row[5], lesson_prepared |-> row[6], done |-> row[7],
     classroom_created |-> row[8], day |-> row[9], backup_date |-> DateStr(now)]

\* UPDATE classes SET lesson_prepared = 0, done = 0, classroom_created = 0
ResetAll(cls) ==
    [id \in DOMAIN cls |->
        [cls[id] EXCEPT !.lesson_prepared = 0, !.done = 0, !.classroom_created = 0]]

\* UPDATE classes SET {field} = ? WHERE id = ?
UpdateField(cls, id, field, v) ==
    IF id \in DOMAIN cls THEN [cls EXCEPT ![id] = [cls[id] EXCEPT ![field] = v]] ELSE cls

\* DELETE FROM classes WHERE id = ?
DeleteClassRow(cls, id) == [i \in DOMAIN cls \ {id} |-> cls[i]]

\* DELETE FROM lesson_plans WHERE class_id = ?
DeletePlans(plans, id) == SelectSeq(plans, LAMBDA p : p.class_id # id)

\* the rows of lesson_plans for one (class_id, day)
PlansFor(plans, id, day) == SelectSeq(plans, LAMBDA p : p.class_id = id /\ p.day = day)

\* mutant of UpsertPlan: save_plan that always INSERTs
UpsertPlanInsertOnly(plans, id, day, text) ==
    Append(plans, [class_id |-> id, day |-> day, plan_text |-> text])

\* save_plan: UPDATE the rows of the pair when the SELECT finds one, else INSERT one
UpsertPlan(plans, id, day, text) ==
    IF PlansFor(plans, id, day) # <<>>
    THEN [i \in 1..Len(plans) |->
            IF plans[i].class_id = id /\ plans[i].day = day
            THEN [plans[i] EXCEPT !.plan_text = text] ELSE plans[i]]
    ELSE Append(plans, [class_id |-> id, day |-> day, plan_text |-> text])

\* one class row LEFT JOINed with its day-scoped plans: a row per plan, or one with NULL
JoinRow(cls, plans, id) ==
    LET c  == cls[id]
        ps == PlansFor(plans, id, c.day)
        shown(pt) == [id |-> id, name |-> c.name, duration |-> c.duration,
                      grade |-> c.grade, time |-> c.time,
                      lesson_prepared |-> CellText(c.lesson_prepared),
                      done |-> CellText(c.done),
                      classroom_created |-> CellText(c.classroom_created),
                      plan_text |-> pt]
    IN  IF ps = <<>> THEN << shown(NULL) >>
        ELSE [i \in 1..Len(ps) |-> shown(ps[i].plan_text)]

RECURSIVE JoinRows(_, _, _)
JoinRows(cls, plans, S) ==
    IF S = {} THEN <<>>
    ELSE LET id == Min(S) IN JoinRow(cls, plans, id) \o JoinRows(cls, plans, S \ {id})

\* load_data(day): the SELECT ... WHERE c.day = ?, rendered into the day's table
load_data(cls, plans, day) ==
    JoinRows(cls, plans, {id \in DOMAIN cls : cls[id].day = day})

\* load_all_days
load_all_days(cls, plans) == [d \in WeekdaySet |-> load_data(cls, plans, d)]

NoTables == [d \in WeekdaySet |-> <<>>]

NoConn == [open |-> FALSE, rows |-> <<>>, pending |-> <<>>, reset |-> FALSE, now |-> 0]

(***************************************************************************)
(* Inputs.                                                                 *)
(***************************************************************************)
\* the weekdays on which the user starts the program; every day but Monday is
\* the same to backup_if_monday
LaunchWeekdays == {"Monday", "Tuesday"}

\* the dates of the launches
Dates == {d \in 1..MaxDay : Weekday(d) \in LaunchWeekdays}

\* date('now') is the UTC date: the local date, the day before or the day after
UtcDates(d) == {d - 1, d, d + 1}

PlanTexts == {"A", "B"}

\* the columns of a table the user clicks: setColumnCount(8)
Columns == 0..7

\* the tabs on which the user adds classes
UsedDays == {"Monday", "Tuesday"}

\* what the user types into the add dialog: name, duration, grade, time
AddForms == { << <<" ", "m">>, <<"5", " ">>, <<"7">>, <<" ", "9">> >>,
              << <<"m">>, <<"5">>, <<"7">>, <<"9">> >>,
              << <<" ">>, <<"5">>, <<"7">>, <<"9">> >>,
              << <<>>, <<"5">>, <<"7">>, <<"9">> >>,
              << <<"m">>, <<"\t", " ">>, <<"7">>, <<"9">> >>,
              << <<"m">>, <<>>, <<"7">>, <<"9">> >> }

(***************************************************************************)
(* Init: a fresh install, before the first launch.                         *)
(***************************************************************************)
Init ==
    /\ pc = "off"
    /\ today = 1
    /\ prev_file = [state |-> "absent", last_backup |-> <<>>]
    /\ classes = <<>>
    /\ seq_classes = 0
    /\ class_history = <<>>
    /\ lesson_plans = <<>>
    /\ tables = NoTables
    /\ conn = NoConn
    /\ history_run = <<>>
    /\ last_return = <<>>
    /\ committed_on = {}
    /\ deleted = {}
    /\ last_save = <<>>
    /\ events = 0

(***************************************************************************)
(* TimetableApp.__init__ and backup_if_monday.  init_db and                *)
(* alter_table_add_columns create what is missing and change no row.       *)
(***************************************************************************)
\* data.get("last_backup", "") of an existing file, "" without one
last_backup == IF prev_file.state = "written" THEN prev_file.last_backup ELSE <<>>

\* mutant of SkipBackup: the sentinel is not consulted
SkipBackupMondayOnly(d, lb) == ~IsMonday(d)

\* mutant of SkipBackup: the weekday is not consulted
SkipBackupSentinelOnly(d, lb) == lb = DateStr(d)

\* line 180: if not is_monday or last_backup == today_str: return
SkipBackup(d, lb) == ~IsMonday(d) \/ lb = DateStr(d)

\* a launch whose json.load fails on a file left empty: the exception ends the process
LaunchCorrupt(d) ==
    /\ pc = "off"
    /\ prev_file.state = "truncated"
    /\ today' = d
    /\ UNCHANGED <<pc, prev_file, store, tables, conn, history_run, last_return,
                   committed_on, user_log>>

\* a launch whose backup_if_monday returns at line 181
LaunchSkip(d) ==
    /\ pc = "off"
    /\ prev_file.state # "truncated"
    /\ SkipBackup(d, last_backup)
    /\ today' = d
    /\ pc' = "returned"
    /\ UNCHANGED <<prev_file, store, tables, conn, history_run, last_return,
                   committed_on, user_log>>

\* a launch that passes line 180: the connection opens and the SELECT fetches the rows
LaunchBackup(d, u) ==
    /\ pc = "off"
    /\ prev_file.state # "truncated"
    /\ ~SkipBackup(d, last_backup)
    /\ today' = d
    /\ pc' = "archive"
    /\ conn' = [open |-> TRUE, rows |-> SelectClasses(classes, DOMAIN classes),
                pending |-> <<>>, reset |-> FALSE, now |-> u]
    /\ UNCHANGED <<prev_file, store, tables, history_run, last_return, committed_on,
                   user_log>>

\* mutant of InsertHistory: a connection in autocommit mode, each INSERT durable at once
InsertHistoryAutocommit ==
    /\ pc = "archive"
    /\ Len(conn.pending) < Len(conn.rows)
    /\ class_history' =
          Append(class_history, HistoryRow(conn.rows[Len(conn.pending) + 1], conn.now))
    /\ history_run' = Append(history_run, today)
    /\ conn' = [conn EXCEPT !.rows = Tail(@)]
    /\ UNCHANGED <<pc, today, prev_file, classes, seq_classes, lesson_plans, tables,
                   last_return, committed_on, user_log>>

\* one turn of the loop: the INSERT joins the connection's open transaction
InsertHistory ==
    /\ pc = "archive"
    /\ Len(conn.pending) < Len(conn.rows)
    /\ conn' = [conn EXCEPT !.pending =
                    Append(@, HistoryRow(conn.rows[Len(conn.pending) + 1], conn.now))]
    /\ UNCHANGED <<pc, today, prev_file, store, tables, history_run, last_return,
                   committed_on, user_log>>

\* the UPDATE after the loop, in the same transaction
ResetFlags ==
    /\ pc = "archive"
    /\ Len(conn.pending) = Len(conn.rows)
    /\ conn' = [conn EXCEPT !.reset = TRUE]
    /\ pc' = "reset"
    /\ UNCHANGED <<today, prev_file, store, tables, history_run, last_return,
                   committed_on, user_log>>

\* leaving the with block: the connection commits its transaction
Commit ==
    /\ pc = "reset"
    /\ class_history' = class_history \o conn.pending
    /\ classes' = IF conn.reset THEN ResetAll(classes) ELSE classes
    /\ history_run' = history_run \o [i \in 1..Len(conn.pending) |-> today]
    /\ committed_on' = committed_on \cup {today}
    /\ conn' = NoConn
    /\ pc' = "committed"
    /\ UNCHANGED <<today, prev_file, seq_classes, lesson_plans, tables, last_return,
                   user_log>>

\* open(prev_file, "w") creates or empties the file
OpenSentinel ==
    /\ pc = "committed"
    /\ prev_file' = [state |-> "truncated", last_backup |-> <<>>]
    /\ pc' = "writing"
    /\ UNCHANGED <<today, store, tables, conn, history_run, last_return, committed_on,
                   user_log>>

\* json.dump({"last_backup": today_str}, f), and backup_if_monday returns
DumpSentinel ==
    /\ pc = "writing"
    /\ prev_file' = [state |-> "written", last_backup |-> DateStr(today)]
    /\ pc' = "returned"
    /\ UNCHANGED <<today, store, tables, conn, history_run, last_return, committed_on,
                   user_log>>

\* the rest of __init__: load_all_days, and the window is up
FinishInit ==
    /\ pc = "returned"
    /\ tables' = load_all_days(classes, lesson_plans)
    /\ last_return' = DateStr(today)
    /\ pc' = "running"
    /\ UNCHANGED <<today, prev_file, store, conn, history_run, committed_on,
                   user_log>>

\* one more counted event
CountEvent == events < MaxEvents /\ events' = events + 1

\* the process dies inside backup_if_monday (an exception out of __init__, a kill):
\* a transaction still open is rolled back
Interrupt ==
    /\ pc \in {"archive", "reset", "committed", "writing"}
    /\ CountEvent
    /\ pc' = "off"
    /\ conn' = NoConn
    /\ UNCHANGED <<today, prev_file, store, tables, history_run, last_return,
                   committed_on, deleted, last_save>>

\* the window is closed
Close ==
    /\ pc = "running"
    /\ pc' = "off"
    /\ tables' = NoTables
    /\ UNCHANGED <<today, prev_file, store, conn, history_run, last_return,
                   committed_on, user_log>>

(***************************************************************************)
(* The handlers of the running window.  Each ends with load_data(day).     *)
(***************************************************************************)
launch_log == <<history_run, last_return, committed_on>>

\* self.tables after load_data(day) on the store (cls, plans)
Reloaded(cls, plans, day) == [tables EXCEPT ![day] = load_data(cls, plans, day)]

\* tabs.currentChanged -> load_current_day(index)
load_current_day(day) ==
    /\ pc = "running"
    /\ tables' = Reloaded(classes, lesson_plans, day)
    /\ UNCHANGED <<pc, today, prev_file, store, conn, launch_log, user_log>>

\* mutant of handle_toggle: the trailing load_data(day) is missing
handle_toggle_stale(row, column, day) ==
    /\ pc = "running"
    /\ row \in 1..Len(tables[day])
    /\ IF column \notin {4, 5, 6}
       THEN UNCHANGED <<classes, events>>
       ELSE LET item      == tables[day][row]
                new_value == IF item[FieldOfColumn(column)] = CHECK_MARK THEN 0 ELSE 1
            IN  /\ CountEvent
                /\ classes' = UpdateField(classes, item.id, FieldOfColumn(column), new_value)
    /\ UNCHANGED <<pc, today, prev_file, seq_classes, class_history, lesson_plans, tables,
                   conn, launch_log, deleted, last_save>>

\* cellClicked -> handle_toggle(row, column, day) on a cell of the table
handle_toggle(row, column, day) ==
    /\ pc = "running"
    /\ row \in 1..Len(tables[day])
    /\ IF column \notin {4, 5, 6}
       THEN UNCHANGED <<classes, tables, events>>
       ELSE LET item      == tables[day][row]
                class_id  == item.id
                field     == FieldOfColumn(column)
                current   == item[field] = CHECK_MARK
                new_value == IF current THEN 0 ELSE 1
                cls       == UpdateField(classes, class_id, field, new_value)
            IN  /\ CountEvent
                /\ classes' = cls
                /\ tables' = Reloaded(cls, lesson_plans, day)
    /\ UNCHANGED <<pc, today, prev_file, seq_classes, class_history, lesson_plans, conn,
                   launch_log, deleted, last_save>>

\* the row's "Edit Plan" button -> edit_lesson_plan(class_id, day, initial_text);
\* `saved` is whether the dialog ended through save_plan
edit_lesson_plan(row, day, text, saved) ==
    /\ pc = "running"
    /\ row \in 1..Len(tables[day])
    /\ IF ~saved
       THEN UNCHANGED <<lesson_plans, tables, last_save, events>>
       ELSE LET class_id == tables[day][row].id
                plans    == UpsertPlan(lesson_plans, class_id, day, text)
                key      == <<class_id, day>>
            IN  /\ CountEvent
                /\ lesson_plans' = plans
                /\ tables' = Reloaded(classes, plans, day)
                /\ last_save' = [k \in DOMAIN last_save \cup {key} |->
                                    IF k = key THEN text ELSE last_save[k]]
    /\ UNCHANGED <<pc, today, prev_file, classes, seq_classes, class_history, conn,
                   launch_log, deleted>>

\* the row's delete button -> delete_class(class_id, day); `confirm` is the answer Yes
delete_class(row, day, confirm) ==
    /\ pc = "running"
    /\ row \in 1..Len(tables[day])
    /\ IF ~confirm
       THEN UNCHANGED <<classes, lesson_plans, tables, deleted, events>>
       ELSE LET class_id == tables[day][row].id
                cls      == DeleteClassRow(classes, class_id)
                plans    == DeletePlans(lesson_plans, class_id)
            IN  /\ CountEvent
                /\ classes' = cls
                /\ lesson_plans' = plans
                /\ tables' = Reloaded(cls, plans, day)
                /\ deleted' = deleted \cup {class_id}
    /\ UNCHANGED <<pc, today, prev_file, seq_classes, class_history, conn,
                   launch_log, last_save>>

\* the day's "Add New Class" button -> add_class_dialog(day); `accepted` is whether the
\* dialog ended with OK, the four texts are what its line edits held
add_class_dialog(day, accepted, name, duration, grade, time_str) ==
    /\ pc = "running"
    /\ IF accepted /\ Truthy(strip(name)) /\ Truthy(strip(duration))
       THEN LET id  == NextId(classes, seq_classes)
                cls == [i \in DOMAIN classes \cup {id} |->
                          IF i = id
                          THEN NewClass(strip(name), strip(duration), day,
                                        strip(grade), strip(time_str))
                          ELSE classes[i]]
            IN  /\ id <= MaxIds
                /\ CountEvent
                /\ classes' = cls
                /\ seq_classes' = IF id > seq_classes THEN id ELSE seq_classes
                /\ tables' = Reloaded(cls, lesson_plans, day)
       ELSE UNCHANGED <<classes, seq_classes, tables, events>>
    /\ UNCHANGED <<pc, today, prev_file, class_history, lesson_plans, conn,
                   launch_log, deleted, last_save>>

(***************************************************************************)
(* The specification.                                                      *)
(***************************************************************************)
Next ==
    \/ \E d \in Dates : d >= today /\ LaunchCorrupt(d)
    \/ \E d \in Dates : d >= today /\ LaunchSkip(d)
    \/ \E d \in Dates : \E u \in UtcDates(d) : d >= today /\ LaunchBackup(d, u)
    \/ InsertHistory
    \/ ResetFlags
    \/ Commit
    \/ OpenSentinel
    \/ DumpSentinel
    \/ FinishInit
    \/ Interrupt
    \/ Close
    \/ \E day \in WeekdaySet : load_current_day(day)
    \/ \E day \in WeekdaySet : \E row \in 1..MaxIds : \E column \in Columns :
          handle_toggle(row, column, day)
    \/ \E day \in WeekdaySet : \E row \in 1..MaxIds : \E text \in PlanTexts :
          \E saved \in BOOLEAN : edit_lesson_plan(row, day, text, saved)
    \/ \E day \in WeekdaySet : \E row \in 1..MaxIds : \E confirm \in BOOLEAN :
          delete_class(row, day, confirm)
    \/ \E day \in UsedDays : \E accepted \in BOOLEAN : \E form \in AddForms :
          add_class_dialog(day, accepted, form[1], form[2], form[3], form[4])

Spec == Init /\ [][Next]_vars

(***************************************************************************)
(* Properties.                                                             *)
(***************************************************************************)
FlagFields == {"lesson_prepared", "done", "classroom_created"}

AllFlagsFalse(c) == \A f \in FlagFields : c[f] = 0

\* the rows a step appends to class_history
NewHistory == SubSeq(class_history', Len(class_history) + 1, Len(class_history'))

\* C1: a launch on a Monday whose date differs from the stored sentinel starts the
\* archive, and when its transaction commits class_history has gained exactly one row
\* per row of classes, each carrying that class's id, name, duration, grade, time, day
\* and three flags as they were before the reset, while every row of classes is left
\* with its three flags false.
C1_ArchiveThenReset ==
    [][ /\ (pc = "off" /\ prev_file.state # "truncated" /\ IsMonday(today')
               /\ last_backup # DateStr(today'))
           => pc' = "archive"
        /\ (pc = "reset" /\ pc' = "committed")
           => /\ Len(class_history') = Len(class_history) + Cardinality(DOMAIN classes)
              /\ SubSeq(class_history', 1, Len(class_history)) = class_history
              /\ \A id \in DOMAIN classes :
                    Cardinality({i \in 1..Len(NewHistory) :
                                    NewHistory[i].original_class_id = id}) = 1
              /\ \A i \in 1..Len(NewHistory) :
                    LET h == NewHistory[i]
                        id == h.original_class_id
                    IN  /\ id \in DOMAIN classes
                        /\ h.name = classes[id].name
                        /\ h.duration = classes[id].duration
                        /\ h.grade = classes[id].grade
                        /\ h.time = classes[id].time
                        /\ h.day = classes[id].day
                        /\ \A f \in FlagFields : h[f] = classes[id][f]
              /\ DOMAIN classes' = DOMAIN classes
              /\ \A id \in DOMAIN classes' : AllFlagsFalse(classes'[id]) ]_vars

\* C1 witness: a reset has just committed two archive rows, one with a flag set
C1_Witness ==
    /\ pc = "committed"
    /\ Cardinality(DOMAIN classes) = 2
    /\ Len(class_history) = 2
    /\ \E i \in 1..2 : class_history[i].done = 1 /\ class_history[i].lesson_prepared = 0

\* C2: a launch on a Monday on which an earlier launch already got past
\* backup_if_monday changes neither class_history nor classes nor lesson_plans nor
\* the sentinel file, whatever was edited in between: backup_if_monday just returns.
C2_SecondRunNoOp ==
    [][ (pc = "off" /\ IsMonday(today') /\ last_return = DateStr(today')
            /\ vars' # vars)
        => /\ pc' = "returned"
           /\ UNCHANGED <<class_history, classes, lesson_plans, prev_file>> ]_vars

\* C2 witness: backup_if_monday has just returned on a Monday already served, with a
\* flag set since the reset that filled class_history
C2_Witness ==
    /\ pc = "returned"
    /\ IsMonday(today)
    /\ last_return = DateStr(today)
    /\ class_history # <<>>
    /\ \E id \in DOMAIN classes : ~AllFlagsFalse(classes[id])

\* C3: a launch on a day other than Monday changes none of classes, class_history,
\* lesson_plans and the sentinel file, whatever the sentinel holds; and the sentinel
\* file changes only in a launch whose archive transaction has committed.
C3_NonMondayNoOp ==
    [][ /\ (pc = "off" /\ ~IsMonday(today'))
           => /\ pc' \in {"off", "returned"}
              /\ UNCHANGED <<classes, class_history, lesson_plans, prev_file>>
        /\ (prev_file' # prev_file)
           => /\ pc \in {"committed", "writing"}
              /\ IsMonday(today)
              /\ today \in committed_on ]_vars

\* C3 witness: backup_if_monday has just returned on a Tuesday, with classes flagged
\* and a sentinel on file
C3_Witness ==
    /\ pc = "returned"
    /\ ~IsMonday(today)
    /\ prev_file.state = "written"
    /\ \E id \in DOMAIN classes : ~AllFlagsFalse(classes[id])

\* the number of rows list-classes(day) returns
RowCount(cls, plans, day) == Len(load_data(cls, plans, day))

\* list-classes(day) returns as many rows after the step as before it, for every day
RowCountsKept ==
    \A d \in WeekdaySet :
        RowCount(classes', lesson_plans', d) = RowCount(classes, lesson_plans, d)

\* the step inserts exactly one row, under `day`, with name n, duration du and the flags
\* false, and list-classes(day) returns it
InsertsOne(day, n, du) ==
    /\ Cardinality(DOMAIN classes' \ DOMAIN classes) = 1
    /\ \A id \in DOMAIN classes : id \in DOMAIN classes' /\ classes'[id] = classes[id]
    /\ \A id \in DOMAIN classes' \ DOMAIN classes :
          /\ classes'[id].day = day
          /\ classes'[id].name = n
          /\ classes'[id].duration = du
          /\ AllFlagsFalse(classes'[id])
          /\ \E r \in 1..Len(tables'[day]) :
                /\ tables'[day][r].id = id
                /\ tables'[day][r].name = n
                /\ tables'[day][r].duration = du
    /\ RowCount(classes', lesson_plans', day) = RowCount(classes, lesson_plans, day) + 1

\* both texts of the form are non-empty after trimming
ValidForm(form) == rstrip(lstrip(form[1])) # <<>> /\ rstrip(lstrip(form[2])) # <<>>

\* every add step inserts one row when the dialog is accepted with a valid form, the
\* row carrying the texts trimmed (trimmed = TRUE) or as given, and nothing otherwise
AddOutcome(trimmed) ==
    /\ (vars' # vars /\ \E day \in UsedDays : \E accepted \in BOOLEAN : \E form \in AddForms :
              /\ ~(accepted /\ ValidForm(form))
              /\ add_class_dialog(day, accepted, form[1], form[2], form[3], form[4]))
       => (classes' = classes /\ RowCountsKept)
    /\ \A day \in UsedDays : \A form \in AddForms :
          (ValidForm(form) /\ add_class_dialog(day, TRUE, form[1], form[2], form[3], form[4]))
          => IF trimmed
             THEN InsertsOne(day, rstrip(lstrip(form[1])), rstrip(lstrip(form[2])))
             ELSE InsertsOne(day, form[1], form[2])

\* C4 as stated: the inserted row carries the name and duration as given
C4_AsStated == [][pc = "running" => AddOutcome(FALSE)]_vars

\* C4, amended: add-class on a day inserts exactly one new row under that day, with
\* the name and duration stripped of surrounding whitespace and the three flags
\* false, when name and duration are both non-empty after trimming; otherwise it
\* inserts nothing and the row count of every day is unchanged.
C4_AddTrimmed == [][pc = "running" => AddOutcome(TRUE)]_vars

\* C4 witness: one class has been added and is shown, flags false
C4_Witness ==
    /\ pc = "running"
    /\ events = 1
    /\ DOMAIN classes = {1}
    /\ classes[1].name = <<"m">> /\ classes[1].duration = <<"5">>
    /\ AllFlagsFalse(classes[1])
    /\ Len(tables[classes[1].day]) = 1

\* C5: a toggle of a flag cell stores the negation of the flag's stored value and
\* changes no other flag, and the table then shows what is stored, so that a second
\* toggle of the same cell restores the value.
C5_ToggleNegates ==
    [][ \A day \in WeekdaySet : \A row \in 1..Len(tables[day]) : \A column \in {4, 5, 6} :
           handle_toggle(row, column, day)
           => LET id == tables[day][row].id
                  f  == FieldOfColumn(column)
              IN  /\ id \in DOMAIN classes
                  /\ DOMAIN classes' = DOMAIN classes
                  /\ classes'[id][f] = 1 - classes[id][f]
                  /\ \A i \in DOMAIN classes : \A g \in FlagFields :
                        (i # id \/ g # f) => classes'[i][g] = classes[i][g]
                  /\ \A r \in 1..Len(tables'[day]) : \A g \in FlagFields :
                        LET shown == tables'[day][r]
                        IN  /\ shown.id \in DOMAIN classes'
                            /\ (shown[g] = CHECK_MARK) = (classes'[shown.id][g] = 1) ]_vars

\* C5 witness: one class, added and then toggled twice on the same flag, which is
\* back to false
C5_Witness ==
    /\ pc = "running"
    /\ events = 3
    /\ seq_classes = 1 /\ DOMAIN classes = {1}
    /\ AllFlagsFalse(classes[1])
    /\ class_history = <<>> /\ lesson_plans = <<>> /\ last_save = <<>>

\* C6: once a delete is confirmed for an id, no row of classes, of lesson_plans, of
\* list-classes(day) or of a table has that id, whatever is added later; and a
\* declined delete changes neither classes nor lesson_plans.
C6_DeletedStaysGone ==
    [][ /\ \A id \in deleted' :
              /\ id \notin DOMAIN classes'
              /\ \A i \in 1..Len(lesson_plans') : lesson_plans'[i].class_id # id
              /\ \A day \in WeekdaySet :
                    /\ \A r \in 1..RowCount(classes', lesson_plans', day) :
                          load_data(classes', lesson_plans', day)[r].id # id
                    /\ \A r \in 1..Len(tables'[day]) : tables'[day][r].id # id
        /\ \A day \in WeekdaySet : \A row \in 1..Len(tables[day]) :
              delete_class(row, day, FALSE) => UNCHANGED <<classes, lesson_plans>> ]_vars

\* C6 witness: a class with a saved plan was deleted, and another class is present
C6_Witness ==
    /\ deleted = {1}
    /\ DOMAIN classes = {2}
    /\ pc = "running"

\* C7: lesson_plans holds at most one row per (class_id, day); a row's text is the
\* text of the most recent save for its pair; and a pair saved for a class not
\* deleted since has exactly one row.
C7_OnePlanPerPair ==
    \A id \in 1..seq_classes : \A day \in WeekdaySet :
        LET ps == SelectSeq(lesson_plans, LAMBDA p : p.class_id = id /\ p.day = day)
            k  == <<id, day>>
        IN  /\ Len(ps) <= 1
            /\ Len(ps) = 1 => (k \in DOMAIN last_save /\ ps[1].plan_text = last_save[k])
            /\ (k \in DOMAIN last_save /\ id \notin deleted) => Len(ps) = 1

\* C7 witness: one class whose plan was saved twice, last as "B"
C7_Witness ==
    /\ events = 3
    /\ seq_classes = 1 /\ DOMAIN classes = {1}
    /\ AllFlagsFalse(classes[1]) /\ class_history = <<>>
    /\ Len(lesson_plans) = 1 /\ lesson_plans[1].plan_text = "B"

\* C8: every class_history row carries as backup_date the date its launch computed
\* as today, the date that launch writes to the sentinel file.
C8_BackupDateIsToday ==
    \A i \in 1..Len(class_history) :
        class_history[i].backup_date = DateStr(history_run[i])

\* C9: no step of a launch between the SELECT and the commit changes the store, and
\* the commit adds every archive row and resets every flag at once; a launch that
\* dies before its commit therefore leaves the store as it found it.
C9_AtomicReset ==
    [][ (pc \in {"archive", "reset"})
        => \/ UNCHANGED <<classes, seq_classes, class_history, lesson_plans>>
           \/ /\ pc' = "committed"
              /\ Len(class_history') = Len(class_history) + Cardinality(DOMAIN classes)
              /\ DOMAIN classes' = DOMAIN classes
              /\ \A id \in DOMAIN classes' : AllFlagsFalse(classes'[id])
              /\ UNCHANGED <<seq_classes, lesson_plans>> ]_vars

\* C9 witness: a Monday launch died with archive rows pending, and the store holds
\* no archive row and still has its flags
C9_Witness ==
    /\ pc = "off"
    /\ IsMonday(today) /\ last_return # DateStr(today)
    /\ today \notin committed_on
    /\ events = MaxEvents
    /\ class_history = <<>>
    /\ \E id \in DOMAIN classes : ~AllFlagsFalse(classes[id])

\* C10: a sentinel holding date D implies the archive transaction of D has committed,
\* and no class is archived twice by launches of one calendar date.
C10_OncePerDate ==
    /\ prev_file.state = "written"
       => \E d \in committed_on : prev_file.last_backup = DateStr(d)
    /\ \A i, j \in 1..Len(class_history) :
          (i < j /\ history_run[i] = history_run[j])
          => class_history[i].original_class_id # class_history[j].original_class_id

====
